---- MODULE Spec2Model ----
(***************************************************************************)
(* Preprocessing of ios/GreenMobilityPass/GreenMobilityPass-Bridging-      *)
(* Header.h inside one translation unit.                                   *)
(*                                                                         *)
(* The header is an #ifndef/#define/#endif include guard around five       *)
(* #import directives.  The model follows the preprocessor line by line:   *)
(* every textual inclusion of the header is a frame on an include stack,   *)
(* the frame's pc is the directive it is about to process.  An #import     *)
(* enters the named file only when that file has not been entered before   *)
(* in the translation unit; while the file's content is being processed    *)
(* it may itself include this header again (a re-entrant inclusion).       *)
(***************************************************************************)
EXTENDS Naturals, Sequences, FiniteSets

\* ------------------------------------------------------------------ bounds
\* number of times the translation unit includes the header at top level
MaxIncludes == 3
\* depth of the include stack of this header (1 = no re-entrant inclusion)
MaxDepth == 2
\* number of re-entrant inclusions performed by imported headers in total
MaxReentry == 2

\* ------------------------------------------------------- the header's text
\* line 8/9: the guard macro
Guard == "GreenMobilityPass_Bridging_Header_h"

ImportDirectivesFour ==
    << "React/RCTBridgeModule.h", "React/RCTEventEmitter.h",
       "React/RCTViewManager.h", "React/RCTLog.h" >>

\* lines 11-15: the import directives, in file order
ImportDirectives ==
    << "React/RCTBridgeModule.h", "React/RCTEventEmitter.h",
       "React/RCTViewManager.h", "React/RCTUtils.h", "React/RCTLog.h" >>

\* every React header the translation unit could have imported on its own
ReactHeaders ==
    { "React/RCTBridgeModule.h", "React/RCTEventEmitter.h",
      "React/RCTViewManager.h", "React/RCTUtils.h", "React/RCTLog.h" }

FamilyOfLogAsUtils(file) ==
    CASE file = "React/RCTBridgeModule.h" -> "native-module base"
      [] file = "React/RCTEventEmitter.h" -> "event-emitter base"
      [] file = "React/RCTViewManager.h"  -> "view-manager base"
      [] file = "React/RCTUtils.h"        -> "native utility helpers"
      [] file = "React/RCTLog.h"          -> "native utility helpers"

\* the symbol family the declarations of an imported file belong to
FamilyOf(file) ==
    CASE file = "React/RCTBridgeModule.h" -> "native-module base"
      [] file = "React/RCTEventEmitter.h" -> "event-emitter base"
      [] file = "React/RCTViewManager.h"  -> "view-manager base"
      [] file = "React/RCTUtils.h"        -> "native utility helpers"
      [] file = "React/RCTLog.h"          -> "native logging"

\* the five symbol families named by the specification
Families ==
    { "native-module base", "event-emitter base", "view-manager base",
      "native utility helpers", "native logging" }

IfndefAlways(m) == TRUE

IfndefInverted(m) == Guard \in m

\* line 8: #ifndef GreenMobilityPass_Bridging_Header_h
IfndefTaken(m) == Guard \notin m

AfterDefineNone(m) == m

AfterDefineTypo(m) == m \cup { "GreenMobilityPass_Bridging_Header" }

\* line 9: #define GreenMobilityPass_Bridging_Header_h
AfterDefine(m) == m \cup { Guard }

ShouldEnterAlways(file, entered) == TRUE

\* #import (lines 11-15): a file is entered only if it was never entered
ShouldEnter(file, entered) == file \notin entered

\* ------------------------------------------------------------------- state
VARIABLES
    preDefined,   \* the guard macro was defined before the first inclusion
    preVisible,   \* families visible before the first inclusion
    macros,       \* macros defined in the translation unit
    imported,     \* files entered so far in the translation unit
    declCount,    \* per file: how often its declarations were processed
    visible,      \* symbol families visible in the translation unit
    order,        \* files whose import directive in this header completed
    stack,        \* include stack of this header, innermost frame last
    includes,     \* top-level inclusions started
    reentries,    \* re-entrant inclusions started
    bodyCount,    \* how often the guarded body was entered
    first         \* outcome recorded when the first inclusion finished

vars == << preDefined, preVisible, macros, imported, declCount, visible,
           order, stack, includes, reentries, bodyCount, first >>

Top == stack[Len(stack)]

Pop == SubSeq(stack, 1, Len(stack) - 1)

SetTop(f) == [stack EXCEPT ![Len(stack)] = f]

NewFrame == [pc |-> "ifndef", idx |-> 0]

\* a duplicate-declaration error: some file's declarations seen twice
Error == \E f \in ReactHeaders : declCount[f] > 1

\* families this header's import directives have granted so far
Granted == { FamilyOf(order[i]) : i \in 1..Len(order) }

\* the frame after the import directive number i has completed
AfterImport(i) ==
    IF i < Len(ImportDirectives)
    THEN [pc |-> "import", idx |-> i + 1]
    ELSE [pc |-> "endif", idx |-> 0]

\* ---------------------------------------------------------------- initial
Init ==
    /\ preDefined \in BOOLEAN
    /\ \E pre \in SUBSET ReactHeaders :
          /\ imported = pre
          /\ declCount = [f \in ReactHeaders |-> IF f \in pre THEN 1 ELSE 0]
          /\ visible = { FamilyOf(f) : f \in pre }
          /\ preVisible = { FamilyOf(f) : f \in pre }
    /\ macros = IF preDefined THEN { Guard } ELSE {}
    /\ order = << >>
    /\ stack = << >>
    /\ includes = 0
    /\ reentries = 0
    /\ bodyCount = 0
    /\ first = << >>

\* ---------------------------------------------------------------- actions
\* the translation unit includes the header
Include ==
    /\ stack = << >>
    /\ includes < MaxIncludes
    /\ stack' = << NewFrame >>
    /\ includes' = includes + 1
    /\ UNCHANGED << preDefined, preVisible, macros, imported, declCount,
                    visible, order, reentries, bodyCount, first >>

\* line 8
Ifndef ==
    /\ stack # << >>
    /\ Top.pc = "ifndef"
    /\ IF IfndefTaken(macros)
       THEN /\ stack' = SetTop([pc |-> "define", idx |-> 0])
            /\ bodyCount' = bodyCount + 1
       ELSE /\ stack' = SetTop([pc |-> "endif", idx |-> 0])
            /\ bodyCount' = bodyCount
    /\ UNCHANGED << preDefined, preVisible, macros, imported, declCount,
                    visible, order, includes, reentries, first >>

\* line 9
Define ==
    /\ stack # << >>
    /\ Top.pc = "define"
    /\ macros' = AfterDefine(macros)
    /\ stack' = SetTop(AfterImport(0))
    /\ UNCHANGED << preDefined, preVisible, imported, declCount, visible,
                    order, includes, reentries, bodyCount, first >>

\* lines 11-15, the named file was entered before: the directive is skipped
ImportSkip ==
    /\ stack # << >>
    /\ Top.pc = "import"
    /\ ~ ShouldEnter(ImportDirectives[Top.idx], imported)
    /\ order' = Append(order, ImportDirectives[Top.idx])
    /\ stack' = SetTop(AfterImport(Top.idx))
    /\ UNCHANGED << preDefined, preVisible, macros, imported, declCount,
                    visible, includes, reentries, bodyCount, first >>

\* lines 11-15, the named file is entered
ImportEnter ==
    /\ stack # << >>
    /\ Top.pc = "import"
    /\ ShouldEnter(ImportDirectives[Top.idx], imported)
    /\ imported' = imported \cup { ImportDirectives[Top.idx] }
    /\ stack' = SetTop([pc |-> "inside", idx |-> Top.idx])
    /\ UNCHANGED << preDefined, preVisible, macros, declCount, visible,
                    order, includes, reentries, bodyCount, first >>

\* the file being processed includes this header again
Reenter ==
    /\ stack # << >>
    /\ Top.pc = "inside"
    /\ Len(stack) < MaxDepth
    /\ reentries < MaxReentry
    /\ stack' = Append(stack, NewFrame)
    /\ reentries' = reentries + 1
    /\ UNCHANGED << preDefined, preVisible, macros, imported, declCount,
                    visible, order, includes, bodyCount, first >>

\* lines 11-15, the end of the entered file: its declarations are visible
ImportLeave ==
    /\ stack # << >>
    /\ Top.pc = "inside"
    /\ declCount' = [declCount EXCEPT ![ImportDirectives[Top.idx]] = @ + 1]
    /\ visible' = visible \cup { FamilyOf(ImportDirectives[Top.idx]) }
    /\ order' = Append(order, ImportDirectives[Top.idx])
    /\ stack' = SetTop(AfterImport(Top.idx))
    /\ UNCHANGED << preDefined, preVisible, macros, imported, includes,
                    reentries, bodyCount, first >>

\* line 17, the end of the header: back to the including file
Endif ==
    /\ stack # << >>
    /\ Top.pc = "endif"
    /\ stack' = Pop
    /\ first' = IF Len(stack) = 1 /\ first = << >>
                THEN << [visible |-> visible, error |-> Error] >>
                ELSE first
    /\ UNCHANGED << preDefined, preVisible, macros, imported, declCount,
                    visible, order, includes, reentries, bodyCount >>

\* one step of the preprocessor inside the header
Step ==
    \/ Ifndef
    \/ Define
    \/ ImportSkip
    \/ ImportEnter
    \/ ImportLeave
    \/ Endif

Next ==
    \/ Include
    \/ Reenter
    \/ Step

Spec == Init /\ [][Next]_vars

\* the preprocessor does not stop in the middle of a file
FairSpec == Spec /\ WF_vars(Step)

\* ------------------------------------------------------------- vocabulary
\* no inclusion is in progress
Idle == stack = << >>

\* at least n top-level inclusions have been started and all have finished
Finished(n) == Idle /\ includes >= n

\* what a step leaves alone when it is no more than a skipped inclusion
Quiet ==
    /\ visible' = visible
    /\ macros' = macros
    /\ declCount' = declCount
    /\ ~ Error'

\* the header is about to test a guard that is already defined
RepeatStart == stack # << >> /\ Top.pc = "ifndef" /\ Guard \in macros

\* a step of an inclusion that found the guard defined, or of any #endif
RepeatStepIsQuiet ==
    /\ RepeatStart =>
          /\ Len(stack') = Len(stack)
          /\ stack'[Len(stack')].pc = "endif"
          /\ Quiet
    /\ (stack # << >> /\ Top.pc = "endif") =>
          /\ stack' = Pop
          /\ Quiet

\* no step undefines the guard macro
GuardStaysDefined == (Guard \in macros) => (Guard \in macros')

\* ------------------------------------------------------------------ claims
\* C1: with the guard macro initially undefined, two or more inclusions in
\* sequence end as the first one did: no duplicate-declaration error in
\* either case and the same set of visible symbol families.
IncludeTwiceSameAsOnce ==
    (~ preDefined /\ Finished(2)) =>
        /\ Len(first) = 1
        /\ ~ first[1].error
        /\ ~ Error
        /\ visible = first[1].visible

IncludeTwiceSameAsOnceWitness ==
    /\ ~ preDefined
    /\ Finished(2)
    /\ Len(first) = 1
    /\ visible = first[1].visible
    /\ visible = Families

\* C2: whatever the sequence of inclusions, the guarded body is entered at
\* most once and no file's declarations are processed twice.
BodyAtMostOnce == bodyCount <= 1 /\ ~ Error

BodyAtMostOnceWitness == Finished(2) /\ bodyCount = 1 /\ reentries > 0

\* C3: after one or more inclusions with the guard initially undefined the
\* families granted by the header are exactly the five named ones, and the
\* translation unit sees them and nothing it did not see before.
ExactlyFiveFamilies ==
    (~ preDefined /\ Finished(1)) =>
        /\ Granted = Families
        /\ visible = preVisible \cup Families

ExactlyFiveFamiliesWitness ==
    /\ ~ preDefined
    /\ Finished(1)
    /\ preVisible = {}
    /\ Granted = Families

\* C4 as stated: the header has four import directives and grants four
\* symbol families.
FourDirectivesFourFamilies ==
    (~ preDefined /\ Finished(1)) =>
        /\ Len(ImportDirectives) = 4
        /\ Len(order) = 4
        /\ Cardinality(Granted) = 4

\* C4 as amended: the header has five import directives, each processed
\* once, and grants five symbol families.
FiveDirectivesFiveFamilies ==
    (~ preDefined /\ Finished(1)) =>
        /\ Len(ImportDirectives) = 5
        /\ Len(order) = 5
        /\ Cardinality(Granted) = 5

FiveDirectivesFiveFamiliesWitness ==
    /\ ~ preDefined
    /\ Finished(1)
    /\ preVisible # {}
    /\ Len(order) = 5
    /\ Cardinality(Granted) = 5

\* C5: an inclusion that finds the guard defined goes from #ifndef straight
\* to #endif and back to the including file; neither step changes the
\* visible symbols, the defined macros or the declarations processed, and
\* none leaves a duplicate-declaration error.
RepeatInclusionNoOp == [][RepeatStepIsQuiet]_vars

RepeatInclusionNoOpWitness ==
    /\ ~ preDefined
    /\ includes >= 2
    /\ stack # << >>
    /\ Top.pc = "endif"
    /\ bodyCount = 1

\* every frame that is at or inside an import directive has the guard defined
GuardBeforeImports ==
    \A i \in 1..Len(stack) :
        stack[i].pc \in { "import", "inside" } => Guard \in macros

\* the directives completed so far are a prefix of the file's directives
FileOrder ==
    /\ Len(order) <= Len(ImportDirectives)
    /\ \A i \in 1..Len(order) : order[i] = ImportDirectives[i]

\* a re-entrant inclusion never gets into the guarded body
ReentrantSkipsBody ==
    \A i \in 2..Len(stack) : stack[i].pc \in { "ifndef", "endif" }

\* C6: the guard is defined before any import directive is processed, the
\* directives complete in file order, a re-entrant inclusion skips the
\* body, and every inclusion that was started ends, with the body entered
\* exactly once when the guard was initially undefined.
ReentrancyTerminates ==
    /\ [](GuardBeforeImports /\ FileOrder /\ ReentrantSkipsBody)
    /\ (~ Idle /\ ~ preDefined) ~> (Idle /\ bodyCount = 1)

ReentrancyTerminatesWitness ==
    /\ Len(stack) = 2
    /\ stack[1].pc = "inside"
    /\ stack[2].pc = "endif"
    /\ Guard \in macros

\* C7: the guard macro, once defined, stays defined, and whenever the
\* header has granted a symbol family the guard macro is defined.
GuardMonotone ==
    /\ [](Granted # {} => Guard \in macros)
    /\ [][GuardStaysDefined]_vars

GuardMonotoneWitness ==
    /\ includes >= 2
    /\ stack # << >>
    /\ Granted # {}
    /\ Guard \in macros

\* C8: when the guard macro was defined before the first inclusion, no
\* inclusion enters the body, processes an import directive or changes the
\* visible symbol families.
PredefinedGuardBlocksBody ==
    preDefined =>
        /\ bodyCount = 0
        /\ order = << >>
        /\ visible = preVisible
        /\ \A i \in 1..Len(stack) : stack[i].pc \in { "ifndef", "endif" }

PredefinedGuardBlocksBodyWitness ==
    /\ preDefined
    /\ Finished(2)
    /\ Guard \in macros
    /\ Granted = {}

====
